---- MODULE Spec2Model ----
(***************************************************************************)
(* Seat inventory and booking lifecycle of event-booker.                   *)
(*                                                                         *)
(* The relational store is the state: the events and bookings tables.      *)
(* Every repository method is one SQL statement or one transaction of      *)
(* conditional writes; PostgreSQL serialises conflicting row updates and   *)
(* re-evaluates the WHERE clause after the lock wait, so each repository   *)
(* call is one atomic step.  Service.BookEvent reads the event and then    *)
(* calls CreateBooking: two store calls, two steps.  The scheduled job     *)
(* lists the expired bookings and then cancels them one by one: one step   *)
(* for the listing, one per listed booking; the cron scheduler may start a *)
(* run while an earlier one is still going through its list.               *)
(*                                                                         *)
(* Spec         every operation, on a store that answers every call        *)
(* SpecFull     Spec with every event created with all its seats available *)
(* SpecFaults   SpecFull and the steps of a failing store or notifier      *)
(* SpecLive     the endpoints and the scheduled job, with fairness         *)
(* SpecOverlap  reconciliation alone, overlapping with itself              *)
(* SpecJob      the scheduled job alone, with every step that can fail     *)
(* SpecOversell n+k concurrent BookEvent calls on an event with n seats    *)
(* SpecRegister registration and login, on a users table that starts empty *)
(***************************************************************************)
EXTENDS Integers, Sequences, FiniteSets, TLC

\* ---------------------------------------------------------------- bounds
MaxSeats == 2
MaxBookings == 2
MaxTime == 2
MaxExtra == 1
MaxInFlight == 1
MaxEvents == 1
MaxRuns == 2
MaxRegisters == 2

\* Ids of the events table, in the order the rows are inserted.
EventIds == 1..MaxEvents
\* eventID arguments of confirm and cancel calls: any id, also one that names no event.
EventArgs == 1..(MaxEvents + 1)
Users == {"A", "B"}

\* A time.Duration counts milliseconds here; the clock and every timestamp count
\* whole seconds.
Second == 1000

\* booking_ttl of a create request, parsed by time.ParseDuration: "1s", "1.5s".
TTLs == {Second, Second + Second \div 2}

\* title and date of a create request.
Titles == {"Jazz Night"}
Dates == {MaxTime}

VARIABLES
    events,     \* events table: id -> row
    bookings,   \* bookings table: sequence of rows, the index is the id
    now,        \* the clock (time.Now() and NOW())
    calls,      \* per request slot: the BookEvent call in flight, or its result
    job,        \* per started CancelExpiredBookingsJob.Run: the bookings still to process
    sent,       \* per booking id: the messages handed to notifier.Send, in order
    users,      \* users table: id -> row
    auth,       \* per request slot: the Register call in flight, or its result
    last        \* observation of the step just taken

vars == <<events, bookings, now, calls, job, sent, users, auth, last>>

\* ---------------------------------------------------------------- errors
\* An error value is its chain, outermost wrap first; nil is the empty chain.
Nil == <<>>
RepoErrEventNotFound == "eventrepo.ErrEventNotFound"
RepoErrNoSeatsAvailable == "eventrepo.ErrNoSeatsAvailable"
ErrBookingNotFoundOrAlreadyConfirmed == "eventrepo.ErrBookingNotFoundOrAlreadyConfirmed"
ErrBookingNotFoundOrAlreadyCancelled == "eventrepo.ErrBookingNotFoundOrAlreadyCancelled"
ErrNoSeatsAvailable == "eventservice.ErrNoSeatsAvailable"
ErrEventNotFound == "eventservice.ErrEventNotFound"

\* An error of the database driver (a failed statement or commit).
SQLError == "sql: error"

\* fmt.Errorf("<ctx>: %w", err)
Wrap(ctx, err) == <<ctx>> \o err

\* errors.Is(err, target)
ErrorsIs(err, target) == \E i \in DOMAIN err : err[i] = target

\* Handler.BookEvent: the status the handler answers for the service's error.
BookEventStatus(err) ==
    IF err = Nil THEN "200 OK"
    ELSE IF ErrorsIs(err, ErrEventNotFound) THEN "404 Not Found"
    ELSE IF ErrorsIs(err, ErrNoSeatsAvailable) THEN "409 Conflict"
    ELSE "500 Internal Server Error"

\* ---------------------------------------------------------------- tables
NoEvent == [exists |-> FALSE, title |-> "", date |-> 0,
            total_seats |-> 0, available_seats |-> 0, booking_ttl |-> 0]

BookingIds == DOMAIN bookings

\* bookings.status DEFAULT 'pending'
DefaultStatus == "pending"

\* bookings.status CHECK ( status IN (...) )
StatusCheck == {"pending", "confirmed", "cancelled"}

\* The status CancelExpiredBookings writes (SET status = ...).
ExpiredStatusExpired == "expired"
ExpiredStatus == "cancelled"

\* The status CancelBooking writes.
CancelledStatus == "cancelled"

\* WHERE status = 'pending' AND expires_at < NOW()
IsExpiredAnyStatus(b) == bookings[b].expires_at < now
IsPendingAnyTime(b) == bookings[b].status = "pending"
IsExpiredNotCancelled(b) ==
    /\ bookings[b].status # "cancelled"
    /\ bookings[b].expires_at < now
IsPendingDue(b) ==
    /\ bookings[b].status = "pending"
    /\ bookings[b].expires_at <= now
IsExpiredPending(b) ==
    /\ bookings[b].status = "pending"
    /\ bookings[b].expires_at < now

\* GetExpiredBookings: the ids of the rows the SELECT returns.
GetExpiredBookings == {b \in BookingIds : IsExpiredPending(b)}

\* ---------------------------------------------------------------- users
\* email of a registration or login request.
Emails == {"a@example.com", "b@example.com"}
Passwords == {"pw1", "pw2"}

\* hashPassword and verifyPassword (bcrypt).
Hash(password) == <<"bcrypt", password>>
VerifyPassword(password, hash) == hash = Hash(password)

NoUser == [exists |-> FALSE, email |-> "", password_hash |-> <<>>]

\* INSERT INTO users (email, password_hash, name)
NewUser(email, hash) == [exists |-> TRUE, email |-> email, password_hash |-> hash]

\* The users table once both users have registered, each under an email of
\* their own.
Registered ==
    [u \in Users |->
        NewUser(IF u = "A" THEN "a@example.com" ELSE "b@example.com", Hash("pw1"))]

\* A Register call that has not been made.
NoCall == [pc |-> "idle", email |-> "", hash |-> <<>>, res |-> <<>>]

\* Repository.GetUserByID: the Email of the row.
GetUserByID(u) == users[u].email

\* fmt.Sprintf("Your booking for the event \"%s\" has been canceled due to
\* expiration.", event.Title), as the pieces around the title and the title.
MessageWithoutTitle(title) ==
    <<"Your booking for the event \"", "", "\" has been canceled due to expiration.">>
Message(title) ==
    <<"Your booking for the event \"", title, "\" has been canceled due to expiration.">>

\* notifier.Send(user.Email, message) for booking b: the user and the event are
\* looked up by the ids of the listed row.
Send(b) ==
    [sent EXCEPT ![b] = Append(@, [to |-> GetUserByID(bookings[b].user_id),
                                   msg |-> Message(events[bookings[b].event_id].title)])]

\* ---------------------------------------------------------------- observation
\* What the step did: the operation, its arguments and result, the bookings whose
\* status it changed (trans) and the statuses they had (from), and the change of
\* every event's available_seats (inc), taken from the tables before (events,
\* bookings) and after (ev2, bk2) the step.  For a CancelExpiredBookings step,
\* prev is the operation of the step before it and the number of bookings that
\* step transitioned.
Observe(op, arg, res, ev2, bk2) ==
    last' = [op |-> op, arg |-> arg, res |-> res,
             prev |-> IF op = "reconcile"
                        THEN [op |-> last.op, n |-> Cardinality(last.trans)]
                        ELSE [op |-> "", n |-> 0],
             trans |-> {b \in BookingIds : bk2[b].status # bookings[b].status},
             from |-> {bookings[b].status :
                         b \in {x \in BookingIds : bk2[x].status # bookings[x].status}},
             inc |-> [e \in EventIds |->
                        ev2[e].available_seats - events[e].available_seats]]

NoArg == [b |-> 0, was |-> "none", match |-> FALSE]

NoStep == [op |-> "init", arg |-> NoArg, res |-> Nil, prev |-> [op |-> "", n |-> 0],
           trans |-> {}, from |-> {},
           inc |-> [e \in EventIds |-> 0]]

\* ---------------------------------------------------------------- Init
\* A run of the job that has not started or has returned nil; ret is what the
\* last Run in the slot returned.
NotRunning == [pc |-> "idle", todo |-> {}, ret |-> Nil]

Idle == [pc |-> "idle", user |-> "", event |-> 0, at |-> 0, expires_at |-> 0, res |-> Nil]

Init ==
    /\ events = [e \in EventIds |-> NoEvent]
    /\ bookings = <<>>
    /\ now = 0
    /\ calls = [c \in 1..MaxInFlight |-> Idle]
    /\ job = [j \in 1..MaxRuns |-> NotRunning]
    /\ sent = [b \in 1..MaxBookings |-> <<>>]
    /\ users = Registered
    /\ auth = [c \in 1..MaxInFlight |-> NoCall]
    /\ last = NoStep

\* ---------------------------------------------------------------- clock
Tick ==
    /\ now < MaxTime
    /\ now' = now + 1
    /\ UNCHANGED <<events, bookings, calls, job, sent, users, auth>>
    /\ Observe("tick", NoArg, Nil, events, bookings)

\* ---------------------------------------------------------------- CreateEvent
\* int64(event.BookingTTL.Seconds()): the whole seconds of a Duration.
DurationSeconds(d) == d \div Second

\* INSERT INTO events (title, date, total_seats, available_seats, booking_ttl):
\* booking_ttl is stored as a number of seconds.
NewEvent(title, date, total, avail, ttl) ==
    [exists |-> TRUE, title |-> title, date |-> date, total_seats |-> total,
     available_seats |-> avail, booking_ttl |-> DurationSeconds(ttl)]

\* Handler.CreateEvent validates total_seats and available_seats as "required"
\* (non-zero) only; Service.CreateEvent and Repository.CreateEvent store them as
\* given.  Ids are handed out in order.
CreateEvent(title, date, total, avail, ttl) ==
    /\ \E e \in EventIds :
        /\ ~events[e].exists
        /\ \A d \in EventIds : d < e => events[d].exists
        /\ events' = [events EXCEPT ![e] = NewEvent(title, date, total, avail, ttl)]
        /\ Observe("create", NoArg, Nil,
              [events EXCEPT ![e] = NewEvent(title, date, total, avail, ttl)], bookings)
    /\ UNCHANGED <<bookings, now, calls, job, sent, users, auth>>

\* ---------------------------------------------------------------- BookEvent
\* UPDATE events SET available_seats = available_seats - 1 WHERE id = $1 AND available_seats > 0
SeatAvailableUnguarded(e) == events[e].exists
SeatAvailable(e) == events[e].exists /\ events[e].available_seats > 0

\* SET available_seats = available_seats - 1: the events table after the update.
TakeSeatOfTotal(e) == [events EXCEPT ![e].total_seats = @ - 1]
TakeSeat(e) == [events EXCEPT ![e].available_seats = @ - 1]

\* A BookEvent call that has returned res.
Done(res) == [pc |-> "done", user |-> "", event |-> 0, at |-> 0, expires_at |-> 0, res |-> res]

\* Repository.GetEventByID: the error it returns (sql.ErrNoRows -> ErrEventNotFound).
GetEventByIDFound(e) == Nil
GetEventByID(e) == IF events[e].exists THEN Nil ELSE <<RepoErrEventNotFound>>

\* The argument of a BookEvent call as observed: whether its event id names a row.
BookArg(e) == [b |-> 0, was |-> "none", match |-> events[e].exists]

\* Repository.GetEventByID: event.BookingTTL = time.Duration(bookingTTLSeconds) * time.Second
SecondsAsDuration(seconds) == seconds
SecondsDuration(seconds) == seconds * Second
BookingTTL(e) == SecondsDuration(events[e].booking_ttl)

\* t.Add(d), for a timestamp in whole seconds (every Duration GetEventByID
\* returns is a whole number of seconds).
Add(t, d) == t + d \div Second

\* Service.BookEvent: if event.AvailableSeats <= 0 { return ErrNoSeatsAvailable }
NoSeatsButOne(e) == events[e].available_seats <= 1
NoSeats(e) == events[e].available_seats <= 0

\* Service.BookEvent up to the call of CreateBooking, in request slot c:
\* GetEventByID, the availability check and the computation of ExpiresAt.
BookEventRead(c, u, e) ==
    /\ calls[c].pc # "read"
    /\ LET res == IF ErrorsIs(GetEventByID(e), RepoErrEventNotFound) THEN <<ErrEventNotFound>>
                  ELSE IF NoSeats(e) THEN <<ErrNoSeatsAvailable>>
                  ELSE Nil
       IN
       /\ calls' = [calls EXCEPT ![c] =
             IF res # Nil THEN Done(res)
             ELSE [pc |-> "read", user |-> u, event |-> e, at |-> now,
                   expires_at |-> Add(now, BookingTTL(e)), res |-> Nil]]
       /\ Observe("book.read", BookArg(e), res, events, bookings)
    /\ UNCHANGED <<events, bookings, now, job, sent, users, auth>>

\* INSERT INTO bookings (event_id, user_id, expires_at): status takes its default.
NewBooking(e, u, expires_at) ==
    [event_id |-> e, user_id |-> u, status |-> DefaultStatus, expires_at |-> expires_at]

\* Repository.CreateBooking and the rest of Service.BookEvent.
BookEventCreate(c) ==
    /\ calls[c].pc = "read"
    /\ LET e == calls[c].event
           ev2 == TakeSeat(e)
           bk2 == Append(bookings, NewBooking(e, calls[c].user, calls[c].expires_at))
       IN
       IF SeatAvailable(e)
         THEN /\ Len(bookings) < MaxBookings
              /\ events' = ev2
              /\ bookings' = bk2
              /\ calls' = [calls EXCEPT ![c] = Done(Nil)]
              /\ Observe("book.create", NoArg, Nil, ev2, bk2)
         ELSE /\ UNCHANGED <<events, bookings>>
              /\ calls' = [calls EXCEPT ![c] =
                    Done(Wrap("create booking", <<RepoErrNoSeatsAvailable>>))]
              /\ Observe("book.create", NoArg,
                    Wrap("create booking", <<RepoErrNoSeatsAvailable>>), events, bookings)
    /\ UNCHANGED <<now, job, sent, users, auth>>

\* ---------------------------------------------------------------- ConfirmBooking
\* WHERE id = $1 AND event_id = $2 AND user_id = $3 AND status = 'pending'
ConfirmBookingMatchAnyStatus(u, e, b) ==
    /\ b \in BookingIds
    /\ bookings[b].event_id = e
    /\ bookings[b].user_id = u
ConfirmBookingMatchAnyEvent(u, e, b) ==
    /\ b \in BookingIds
    /\ bookings[b].user_id = u
    /\ bookings[b].status = "pending"
ConfirmBookingMatchNotConfirmed(u, e, b) ==
    /\ b \in BookingIds
    /\ bookings[b].event_id = e
    /\ bookings[b].user_id = u
    /\ bookings[b].status # "confirmed"
ConfirmBookingMatchBeforeDeadline(u, e, b) ==
    /\ b \in BookingIds
    /\ bookings[b].event_id = e
    /\ bookings[b].user_id = u
    /\ bookings[b].status = "pending"
    /\ bookings[b].expires_at >= now
ConfirmBookingMatch(u, e, b) ==
    /\ b \in BookingIds
    /\ bookings[b].event_id = e
    /\ bookings[b].user_id = u
    /\ bookings[b].status = "pending"

\* The arguments of a confirm or cancel call as observed: the booking id, its
\* status before the call and whether id, event and user match a row.
CallArg(u, e, b) ==
    [b |-> b,
     was |-> IF b \in BookingIds THEN bookings[b].status ELSE "none",
     match |-> b \in BookingIds /\ bookings[b].event_id = e /\ bookings[b].user_id = u]

\* The arguments arg of a confirm or cancel call and the error the repository
\* returned to the service.
Store(arg, err) == [b |-> arg.b, was |-> arg.was, match |-> arg.match, store |-> err]

\* Service.ConfirmBookingPayment: what it returns for the repository's error.
ConfirmBookingPaymentNotConfirmable(err) ==
    IF err = Nil THEN Nil
    ELSE Wrap("confirm booking payment", <<ErrBookingNotFoundOrAlreadyConfirmed>>)
ConfirmBookingPayment(err) ==
    IF err = Nil THEN Nil
    ELSE Wrap("confirm booking payment", err)

\* Service.ConfirmBookingPayment -> Repository.ConfirmBooking
ConfirmBooking(u, e, b) ==
    /\ LET bk2 == [bookings EXCEPT ![b].status = "confirmed"] IN
       IF ConfirmBookingMatch(u, e, b)
         THEN /\ bookings' = bk2
              /\ Observe("confirm", Store(CallArg(u, e, b), Nil),
                    ConfirmBookingPayment(Nil), events, bk2)
         ELSE /\ UNCHANGED bookings
              /\ Observe("confirm",
                    Store(CallArg(u, e, b), <<ErrBookingNotFoundOrAlreadyConfirmed>>),
                    ConfirmBookingPayment(<<ErrBookingNotFoundOrAlreadyConfirmed>>),
                    events, bookings)
    /\ UNCHANGED <<events, now, calls, job, sent, users, auth>>

\* ---------------------------------------------------------------- CancelBooking
\* WHERE id = $1 AND event_id = $2 AND user_id = $3 AND status = 'pending' AND expires_at < NOW()
CancelBookingMatchAnyStatus(u, e, b) ==
    /\ b \in BookingIds
    /\ bookings[b].event_id = e
    /\ bookings[b].user_id = u
    /\ bookings[b].expires_at < now
CancelBookingMatchAnyUser(u, e, b) ==
    /\ b \in BookingIds
    /\ bookings[b].event_id = e
    /\ bookings[b].status = "pending"
    /\ bookings[b].expires_at < now
CancelBookingMatchBeforeDeadline(u, e, b) ==
    /\ b \in BookingIds
    /\ bookings[b].event_id = e
    /\ bookings[b].user_id = u
    /\ bookings[b].status = "pending"
    /\ bookings[b].expires_at >= now
CancelBookingMatchPaid(u, e, b) ==
    /\ b \in BookingIds
    /\ bookings[b].event_id = e
    /\ bookings[b].user_id = u
    /\ bookings[b].status \in {"pending", "confirmed"}
    /\ bookings[b].expires_at < now
CancelBookingMatch(u, e, b) ==
    /\ b \in BookingIds
    /\ bookings[b].event_id = e
    /\ bookings[b].user_id = u
    /\ bookings[b].status = "pending"
    /\ bookings[b].expires_at < now

\* Repository.CancelBooking, the transaction: the status update and, when it
\* matched a row, available_seats + 1 on the event ($1 = eventID); otherwise
\* ErrBookingNotFoundOrAlreadyCancelled and the rollback.  Service.CancelBooking
\* wraps the error.
RepoCancelBooking(op, u, e, b) ==
    LET bk2 == [bookings EXCEPT ![b].status = CancelledStatus]
        ev2 == [events EXCEPT ![e].available_seats = @ + 1]
    IN
    IF CancelBookingMatch(u, e, b)
      THEN /\ bookings' = bk2
           /\ events' = ev2
           /\ Observe(op, Store(CallArg(u, e, b), Nil), Nil, ev2, bk2)
      ELSE /\ UNCHANGED <<events, bookings>>
           /\ Observe(op, Store(CallArg(u, e, b), <<ErrBookingNotFoundOrAlreadyCancelled>>),
                Wrap("cancel booking", <<ErrBookingNotFoundOrAlreadyCancelled>>),
                events, bookings)

\* Service.CancelBooking as the cancel endpoint calls it.
CancelBooking(u, e, b) ==
    /\ RepoCancelBooking("cancel", u, e, b)
    /\ UNCHANGED <<now, calls, job, sent, users, auth>>

\* ---------------------------------------------------------------- CancelExpiredBookings
\* UPDATE events SET available_seats = available_seats + 1 FROM expired
\* WHERE events.id = expired.event_id: a target row that joins several rows of
\* expired is updated once.
SeatsReleased(e, T) == IF \E b \in T : bookings[b].event_id = e THEN 1 ELSE 0

\* Repository.CancelExpiredBookings: the statement, and count = the rows of
\* RETURNING events.id.
CancelExpiredBookings ==
    LET T == GetExpiredBookings
        bk2 == [b \in BookingIds |->
                  IF b \in T THEN [bookings[b] EXCEPT !.status = ExpiredStatus]
                  ELSE bookings[b]]
        ev2 == [e \in EventIds |->
                  [events[e] EXCEPT !.available_seats = @ + SeatsReleased(e, T)]]
    IN
    /\ bookings' = bk2
    /\ events' = ev2
    /\ UNCHANGED <<now, calls, job, sent, users, auth>>
    /\ Observe("reconcile", NoArg,
          Cardinality({e \in EventIds : SeatsReleased(e, T) > 0}), ev2, bk2)

\* ---------------------------------------------------------------- the job
\* The cron scheduler starts Run in a goroutine of its own at every firing of
\* the schedule, whether or not an earlier run has returned; the new run takes
\* the first free slot j.
\* CancelExpiredBookingsJob.Run, the listing.
JobList(j) ==
    /\ job[j].pc = "idle"
    /\ \A i \in 1..(j - 1) : job[i].pc = "run"
    /\ job' = IF GetExpiredBookings = {} THEN [job EXCEPT ![j] = NotRunning]
              ELSE [job EXCEPT ![j] =
                      [pc |-> "run", todo |-> GetExpiredBookings, ret |-> Nil]]
    /\ UNCHANGED <<events, bookings, now, calls, sent, users, auth>>
    /\ Observe("job.list", NoArg, Nil, events, bookings)

\* The loop of Run moves on from booking b to the rest of the list, and Run
\* returns after the last one.
NextItem(j, b) ==
    [job EXCEPT ![j] = IF job[j].todo = {b} THEN NotRunning
                       ELSE [pc |-> "run", todo |-> job[j].todo \ {b}, ret |-> Nil]]

\* The iteration for booking b after its CancelBooking: continue when it
\* failed, the lookups and notifier.Send when it returned nil (cancelled).
NotifyAlways(cancelled, b) == Send(b)
Notify(cancelled, b) == IF cancelled THEN Send(b) ELSE sent

\* CancelExpiredBookingsJob.Run, one iteration of the loop: CancelBooking with
\* the listed row's user, event and id, then the lookups and notifier.Send.
JobStep(j, b) ==
    /\ job[j].pc = "run"
    /\ b \in job[j].todo
    /\ LET u == bookings[b].user_id
           e == bookings[b].event_id IN
       /\ RepoCancelBooking("job.cancel", u, e, b)
       /\ sent' = Notify(CancelBookingMatch(u, e, b), b)
    /\ job' = NextItem(j, b)
    /\ UNCHANGED <<now, calls, users, auth>>

\* ---------------------------------------------------------------- Next
\* Every operation on events that exist.
Operate ==
    \/ Tick
    \/ \E c \in DOMAIN calls, u \in Users, e \in EventIds : BookEventRead(c, u, e)
    \/ \E c \in DOMAIN calls : BookEventCreate(c)
    \/ \E u \in Users, e \in EventArgs, b \in 1..MaxBookings : ConfirmBooking(u, e, b)
    \/ \E u \in Users, e \in EventArgs, b \in 1..MaxBookings : CancelBooking(u, e, b)
    \/ CancelExpiredBookings
    \/ \E j \in 1..MaxRuns : JobList(j)
    \/ \E j \in 1..MaxRuns, b \in 1..MaxBookings : JobStep(j, b)

Next ==
    \/ \E title \in Titles, date \in Dates, total \in 1..MaxSeats, avail \in 1..MaxSeats,
          ttl \in TTLs : CreateEvent(title, date, total, avail, ttl)
    \/ Operate

Spec == Init /\ [][Next]_vars

\* ---------------------------------------------------------------- SpecFull
\* Spec with every event created with all its seats available
\* (available_seats = total_seats).
NextFull ==
    \/ \E title \in Titles, date \in Dates, total \in 1..MaxSeats, ttl \in TTLs :
          CreateEvent(title, date, total, total, ttl)
    \/ Operate

SpecFull == Init /\ [][NextFull]_vars

\* ---------------------------------------------------------------- SpecOversell
\* An event with n available seats (created with total_seats = available_seats
\* = n) and n+k BookEvent requests, k > 0, each issued once, in any interleaving.
InitOversell ==
    \E title \in Titles, date \in Dates, n \in 1..MaxSeats, k \in 1..MaxExtra, ttl \in TTLs :
        /\ events = [e \in EventIds |->
                       IF e = 1 THEN NewEvent(title, date, n, n, ttl) ELSE NoEvent]
        /\ bookings = <<>>
        /\ now = 0
        /\ calls = [c \in 1..(n + k) |-> Idle]
        /\ job = [j \in 1..MaxRuns |-> NotRunning]
        /\ sent = [b \in 1..MaxBookings |-> <<>>]
        /\ users = Registered
        /\ auth = [c \in 1..MaxInFlight |-> NoCall]
        /\ last = NoStep

NextOversell ==
    \/ \E c \in DOMAIN calls, u \in Users : calls[c].pc = "idle" /\ BookEventRead(c, u, 1)
    \/ \E c \in DOMAIN calls : BookEventCreate(c)

SpecOversell == InitOversell /\ [][NextOversell]_vars

\* ---------------------------------------------------------------- SpecFaults
\* The steps of a store, or of a notifier, that fails.
\*
\* defer tx.Rollback() in CreateBooking: a transaction that returns before its
\* commit leaves the tables as they were (before), not as its statements made
\* them (after).
CreateBookingNoRollback(before, after) == after
CreateBookingRollback(before, after) == before

\* Repository.CreateBooking when the conditional decrement has matched and the
\* INSERT, or the commit, fails.
BookEventCreateFail(c) ==
    /\ calls[c].pc = "read"
    /\ SeatAvailable(calls[c].event)
    /\ LET e == calls[c].event
           ev2 == CreateBookingRollback(events, TakeSeat(e))
           res == Wrap("create booking", Wrap("failed to insert booking", <<SQLError>>))
       IN
       /\ events' = ev2
       /\ calls' = [calls EXCEPT ![c] = Done(res)]
       /\ Observe("book.create", NoArg, res, ev2, bookings)
    /\ UNCHANGED <<bookings, now, job, sent, users, auth>>

\* defer tx.Rollback() in CancelBooking.
CancelBookingNoRollback(before, after) == after
CancelBookingRollback(before, after) == before

\* Repository.CancelBooking when the status update has matched and the update
\* of the event, or the commit, fails.
RepoCancelBookingFail(op, u, e, b) ==
    /\ CancelBookingMatch(u, e, b)
    /\ LET bk2 == CancelBookingRollback(bookings,
                      [bookings EXCEPT ![b].status = CancelledStatus])
           res == Wrap("cancel booking", Wrap("failed to update event", <<SQLError>>))
       IN
       /\ bookings' = bk2
       /\ Observe(op, Store(CallArg(u, e, b), Wrap("failed to update event", <<SQLError>>)),
             res, events, bk2)
    /\ UNCHANGED events

\* Repository.ConfirmBooking when the UPDATE fails with an error other than
\* sql.ErrNoRows: nothing is written.
ConfirmBookingFail(u, e, b) ==
    /\ Observe("confirm",
          Store(CallArg(u, e, b), Wrap("failed to update booking", <<SQLError>>)),
          ConfirmBookingPayment(Wrap("failed to update booking", <<SQLError>>)),
          events, bookings)
    /\ UNCHANGED <<events, bookings, now, calls, job, sent, users, auth>>

CancelBookingFail(u, e, b) ==
    /\ RepoCancelBookingFail("cancel", u, e, b)
    /\ UNCHANGED <<now, calls, job, sent, users, auth>>

\* What the loop of Run does after a CancelBooking that failed: log and continue
\* (ReturnCancelError would end the run with the error).
ReturnCancelError(j, b) ==
    [job EXCEPT ![j] = [pc |-> "idle", todo |-> {}, ret |-> <<"failed to cancel booking">>]]
ContinueAfterCancelError(j, b) == NextItem(j, b)

\* An iteration of the job whose CancelBooking fails: logged, continue.
JobStepCancelFail(j, b) ==
    /\ job[j].pc = "run"
    /\ b \in job[j].todo
    /\ RepoCancelBookingFail("job.cancel", bookings[b].user_id, bookings[b].event_id, b)
    /\ job' = ContinueAfterCancelError(j, b)
    /\ UNCHANGED <<now, calls, sent, users, auth>>

\* What the loop of Run does after a failed lookup or a failed Send: continue
\* (Return would end the run).
Return(j, b) == [job EXCEPT ![j] = NotRunning]
Continue(j, b) == NextItem(j, b)

\* The steps of an iteration after CancelBooking that can fail.
Lookups == {"GetUserByID", "GetEventByID", "Send"}

\* An iteration of the job whose CancelBooking succeeds and whose user lookup,
\* event lookup or notifier.Send fails: logged, and the loop goes on.
JobStepDegraded(j, b, failed) ==
    /\ job[j].pc = "run"
    /\ b \in job[j].todo
    /\ LET u == bookings[b].user_id
           e == bookings[b].event_id IN
       /\ CancelBookingMatch(u, e, b)
       /\ RepoCancelBooking("job.degraded", u, e, b)
    /\ sent' = IF failed = "Send" THEN Send(b) ELSE sent
    /\ job' = Continue(j, b)
    /\ UNCHANGED <<now, calls, users, auth>>

NextFaults ==
    \/ NextFull
    \/ \E c \in DOMAIN calls : BookEventCreateFail(c)
    \/ \E u \in Users, e \in EventArgs, b \in 1..MaxBookings : ConfirmBookingFail(u, e, b)
    \/ \E u \in Users, e \in EventArgs, b \in 1..MaxBookings : CancelBookingFail(u, e, b)
    \/ \E j \in 1..MaxRuns, b \in 1..MaxBookings : JobStepCancelFail(j, b)
    \/ \E j \in 1..MaxRuns, b \in 1..MaxBookings, failed \in Lookups :
          JobStepDegraded(j, b, failed)

SpecFaults == Init /\ [][NextFaults]_vars

\* ---------------------------------------------------------------- SpecOverlap
\* Reconciliation alone and with itself: an event whose n seats are all held
\* by pending bookings (made at time 0 or later, so each expires at 1 or later),
\* the clock, overlapping runs of the job and CancelExpiredBookings statements.
InitOverlap ==
    \E title \in Titles, date \in Dates, n \in 1..MaxBookings, ttl \in TTLs :
      \E bk \in [1..n -> [event_id : {1}, user_id : Users, status : {DefaultStatus},
                          expires_at : DurationSeconds(ttl)..MaxTime]] :
        /\ events = [e \in EventIds |->
                       IF e = 1 THEN NewEvent(title, date, n, 0, ttl) ELSE NoEvent]
        /\ bookings = bk
        /\ now = 0
        /\ calls = [c \in 1..MaxInFlight |-> Idle]
        /\ job = [j \in 1..MaxRuns |-> NotRunning]
        /\ sent = [b \in 1..MaxBookings |-> <<>>]
        /\ users = Registered
        /\ auth = [c \in 1..MaxInFlight |-> NoCall]
        /\ last = NoStep

NextOverlap ==
    \/ Tick
    \/ CancelExpiredBookings
    \/ \E j \in 1..MaxRuns : JobList(j)
    \/ \E j \in 1..MaxRuns, b \in 1..MaxBookings : JobStep(j, b)

SpecOverlap == InitOverlap /\ [][NextOverlap]_vars

\* ---------------------------------------------------------------- SpecJob
\* Service.GetExpiredBookings when the SELECT fails, and what Run returns for it.
GetExpiredBookingsError == Wrap("get expired bookings", Wrap("query expired bookings", <<SQLError>>))
RunError(err) == Wrap("failed to get expired bookings", err)

\* CancelExpiredBookingsJob.Run when the listing fails: Run returns the error
\* before its loop.
JobListFail(j) ==
    /\ job[j].pc = "idle"
    /\ \A i \in 1..(j - 1) : job[i].pc = "run"
    /\ job' = [job EXCEPT ![j] =
                 [pc |-> "idle", todo |-> {}, ret |-> RunError(GetExpiredBookingsError)]]
    /\ UNCHANGED <<events, bookings, now, calls, sent, users, auth>>
    /\ Observe("job.list", NoArg, RunError(GetExpiredBookingsError), events, bookings)

\* The scheduled job on an event whose seats are all held by pending bookings,
\* with a store and a notifier that may fail at every call.
NextJob ==
    \/ Tick
    \/ \E j \in 1..MaxRuns : JobList(j)
    \/ \E j \in 1..MaxRuns : JobListFail(j)
    \/ \E j \in 1..MaxRuns, b \in 1..MaxBookings : JobStep(j, b)
    \/ \E j \in 1..MaxRuns, b \in 1..MaxBookings : JobStepCancelFail(j, b)
    \/ \E j \in 1..MaxRuns, b \in 1..MaxBookings, failed \in Lookups :
          JobStepDegraded(j, b, failed)

SpecJob == InitOverlap /\ [][NextJob]_vars

\* ---------------------------------------------------------------- SpecLive
\* The program as it runs: the endpoints and the scheduled job (nothing calls
\* Repository.CancelExpiredBookings).  The clock advances, the cron schedule
\* keeps firing (every 30 seconds) and a started run goes through its list.
NextLive ==
    \/ \E title \in Titles, date \in Dates, total \in 1..MaxSeats, ttl \in TTLs :
          CreateEvent(title, date, total, total, ttl)
    \/ Tick
    \/ \E c \in DOMAIN calls, u \in Users, e \in EventIds : BookEventRead(c, u, e)
    \/ \E c \in DOMAIN calls : BookEventCreate(c)
    \/ \E u \in Users, e \in EventArgs, b \in 1..MaxBookings : ConfirmBooking(u, e, b)
    \/ \E u \in Users, e \in EventArgs, b \in 1..MaxBookings : CancelBooking(u, e, b)
    \/ \E j \in 1..MaxRuns : JobList(j)
    \/ \E j \in 1..MaxRuns, b \in 1..MaxBookings : JobStep(j, b)

Fairness ==
    /\ WF_vars(Tick)
    /\ WF_vars(\E j \in 1..MaxRuns : JobList(j))
    /\ \A j \in 1..MaxRuns : WF_vars(\E b \in 1..MaxBookings : JobStep(j, b))

SpecLive == Init /\ [][NextLive]_vars /\ Fairness

\* ---------------------------------------------------------------- SpecRegister
\* Registration and login.
UserRepoErrUserNotFound == "userrepo.ErrUserNotFound"
ErrUserAlreadyExists == "userservice.ErrUserAlreadyExists"
ErrInvalidCredentials == "userservice.ErrInvalidCredentials"

\* The error of the driver for an INSERT that violates users.email UNIQUE.
UniqueViolation == "pq: duplicate key value violates unique constraint"

\* Handler.Register: the status the handler answers for the service's error.
RegisterStatus(err) ==
    IF err = Nil THEN "201 Created"
    ELSE IF ErrorsIs(err, ErrUserAlreadyExists) THEN "409 Conflict"
    ELSE "500 Internal Server Error"

\* Handler.Login: the status the handler answers for the service's error.
LoginStatus(err) ==
    IF err = Nil THEN "200 OK"
    ELSE IF ErrorsIs(err, ErrInvalidCredentials) THEN "401 Unauthorized"
    ELSE IF ErrorsIs(err, UserRepoErrUserNotFound) THEN "404 Not Found"
    ELSE "500 Internal Server Error"

\* SELECT EXISTS(SELECT 1 FROM users WHERE email = $1)
CheckUserExistsByEmail(email) == \E u \in Users : users[u].exists /\ users[u].email = email

\* The argument of a Register call as observed: whether a user with its email
\* exists when the step is taken.
RegisterArg(email) == [b |-> 0, was |-> "none", match |-> CheckUserExistsByEmail(email)]

\* A Register call that has returned res.
Returned(res) == [pc |-> "done", email |-> "", hash |-> <<>>, res |-> res]

\* Service.Register up to the call of CreateUser, in request slot c:
\* CheckUserExistsByEmail and hashPassword.
RegisterCheck(c, email, password) ==
    /\ auth[c].pc # "checked"
    /\ LET res == IF CheckUserExistsByEmail(email) THEN <<ErrUserAlreadyExists>> ELSE Nil IN
       /\ auth' = [auth EXCEPT ![c] =
             IF res # Nil THEN Returned(res)
             ELSE [pc |-> "checked", email |-> email, hash |-> Hash(password), res |-> Nil]]
       /\ Observe("register.check", RegisterArg(email), res, events, bookings)
    /\ UNCHANGED <<events, bookings, now, calls, job, sent, users>>

\* Repository.CreateUser and the rest of Service.Register: the INSERT, which
\* users.email UNIQUE rejects when a row with the email exists; the new row
\* takes the first free id.
RegisterCreate(c) ==
    /\ auth[c].pc = "checked"
    /\ IF CheckUserExistsByEmail(auth[c].email)
         THEN /\ UNCHANGED users
              /\ auth' = [auth EXCEPT ![c] = Returned(
                    Wrap("create user", Wrap("failed to create user", <<UniqueViolation>>)))]
              /\ Observe("register.create", RegisterArg(auth[c].email),
                    Wrap("create user", Wrap("failed to create user", <<UniqueViolation>>)),
                    events, bookings)
         ELSE /\ \E u \in Users :
                    /\ ~users[u].exists
                    /\ u = "B" => users["A"].exists
                    /\ users' = [users EXCEPT ![u] = NewUser(auth[c].email, auth[c].hash)]
              /\ auth' = [auth EXCEPT ![c] = Returned(Nil)]
              /\ Observe("register.create", RegisterArg(auth[c].email), Nil, events, bookings)
    /\ UNCHANGED <<events, bookings, now, calls, job, sent>>

\* Repository.GetUserByEmail: the password_hash of the row, or ErrUserNotFound.
GetUserByEmail(email) ==
    IF CheckUserExistsByEmail(email)
      THEN [err |-> Nil,
            hash |-> users[CHOOSE u \in Users : users[u].exists /\ users[u].email = email].password_hash]
      ELSE [err |-> <<UserRepoErrUserNotFound>>, hash |-> <<>>]

\* The arguments of a Login call as observed: whether a user with its email
\* exists and, if so, whether the password is that user's.
LoginArg(email, password) ==
    [b |-> 0,
     was |-> IF ~CheckUserExistsByEmail(email) THEN "none"
             ELSE IF VerifyPassword(password, GetUserByEmail(email).hash) THEN "verified"
             ELSE "mismatch",
     match |-> CheckUserExistsByEmail(email)]

\* Service.Login: GetUserByEmail, verifyPassword, generateToken.
Login(email, password) ==
    /\ LET user == GetUserByEmail(email)
           res == IF ErrorsIs(user.err, UserRepoErrUserNotFound) THEN <<ErrInvalidCredentials>>
                  ELSE IF ~VerifyPassword(password, user.hash) THEN <<ErrInvalidCredentials>>
                  ELSE Nil
       IN Observe("login", LoginArg(email, password), res, events, bookings)
    /\ UNCHANGED <<events, bookings, now, calls, job, sent, users, auth>>

InitRegister ==
    /\ events = [e \in EventIds |-> NoEvent]
    /\ bookings = <<>>
    /\ now = 0
    /\ calls = [c \in 1..MaxInFlight |-> Idle]
    /\ job = [j \in 1..MaxRuns |-> NotRunning]
    /\ sent = [b \in 1..MaxBookings |-> <<>>]
    /\ users = [u \in Users |-> NoUser]
    /\ auth = [c \in 1..MaxRegisters |-> NoCall]
    /\ last = NoStep

NextRegister ==
    \/ \E c \in DOMAIN auth, email \in Emails, password \in Passwords :
          RegisterCheck(c, email, password)
    \/ \E c \in DOMAIN auth : RegisterCreate(c)
    \/ \E email \in Emails, password \in Passwords : Login(email, password)

SpecRegister == InitRegister /\ [][NextRegister]_vars

\* ================================================================ claims
IsCancelError(err) == ErrorsIs(err, ErrBookingNotFoundOrAlreadyCancelled)
IsConfirmError(err) == ErrorsIs(err, ErrBookingNotFoundOrAlreadyConfirmed)
NoSeatChange == \A e \in EventIds : last.inc[e] = 0
TransitionedOf(e) == {b \in last.trans : bookings[b].event_id = e}
\* Bookings of event e that hold a seat.
Held(e) ==
    {b \in BookingIds :
        bookings[b].event_id = e /\ bookings[b].status \in {"pending", "confirmed"}}

\* C1: conservation.  In every reachable state every event satisfies
\* available_seats + (its bookings with status pending or confirmed) = total_seats.
Conservation ==
    \A e \in EventIds :
        events[e].exists =>
            events[e].available_seats + Cardinality(Held(e)) = events[e].total_seats

\* C3: seat-count bounds.  In every reachable state every event has
\* 0 <= available_seats <= total_seats.
SeatBounds ==
    \A e \in EventIds :
        events[e].exists =>
            /\ 0 <= events[e].available_seats
            /\ events[e].available_seats <= events[e].total_seats

\* C4: a cancelBooking by the owner of a pending booking, issued before the
\* booking's expires_at, succeeds: the booking is cancelled and its event's
\* available_seats goes up by one.
CancelBeforeDeadlineSucceeds ==
    (/\ last.op = "cancel"
     /\ last.arg.match
     /\ last.arg.was = "pending"
     /\ now < bookings[last.arg.b].expires_at)
    => /\ last.res = Nil
       /\ bookings[last.arg.b].status = "cancelled"
       /\ last.inc[bookings[last.arg.b].event_id] = 1

\* C5: a user's cancelBooking issued when now is past the booking's expires_at
\* never changes the booking's status and fails with BookingNotCancellable.
CancelAfterDeadlineFails ==
    (/\ last.op = "cancel"
     /\ last.arg.b \in BookingIds
     /\ bookings[last.arg.b].expires_at < now)
    => /\ IsCancelError(last.res)
       /\ last.trans = {}

\* C6: one seat released per expired booking.  After a reconciliation pass
\* (the set-based statement, or an iteration of the job) every event's
\* available_seats has gone up by exactly the number of that event's bookings
\* the pass transitioned.
ReconcileReleasesOnePerBooking ==
    last.op \in {"reconcile", "job.cancel"} =>
        \A e \in EventIds : last.inc[e] = Cardinality(TransitionedOf(e))

ExpiryCancelRace ==
    last.op \in {"cancel", "job.cancel", "reconcile"} =>
        /\ last.from \subseteq {"pending"}
        /\ \A b \in last.trans :
              /\ bookings[b].expires_at < now
              /\ bookings[b].status = "cancelled"
        /\ \A e \in EventIds :
              /\ TransitionedOf(e) = {} => last.inc[e] = 0
              /\ Cardinality(TransitionedOf(e)) = 1 => last.inc[e] = 1
        /\ last.op \in {"cancel", "job.cancel"} =>
              IF last.res = Nil
                THEN last.trans = {last.arg.b}
                ELSE last.trans = {} /\ IsCancelError(last.res)

\* The cancel lost the race: the job had already cancelled the expired booking.
CancelLostRace ==
    /\ last.op = "cancel"
    /\ last.arg.match
    /\ last.arg.was = "cancelled"
    /\ Len(sent[last.arg.b]) = 1
    /\ IsCancelError(last.res)
    /\ NoSeatChange

\* C9: terminal-state immutability.  No step changes the status of a booking
\* that is confirmed or cancelled; a confirmBooking or cancelBooking on such a
\* booking fails with the not-confirmable / not-cancellable error and changes no
\* event's available_seats.
TerminalStateImmutable ==
    /\ last.from \subseteq {"pending"}
    /\ (/\ last.op \in {"confirm", "cancel"}
        /\ last.arg.was \in {"confirmed", "cancelled", "expired"})
       => /\ last.trans = {}
          /\ NoSeatChange
          /\ bookings[last.arg.b].status = last.arg.was
          /\ last.op = "confirm" => IsConfirmError(last.res)
          /\ last.op = "cancel" => IsCancelError(last.res)

\* The owner's confirm of a cancelled booking, and it failed.
ConfirmOnCancelledFailed ==
    /\ last.op = "confirm"
    /\ last.arg.match
    /\ last.arg.was = "cancelled"
    /\ IsConfirmError(last.res)

\* ---------------------------------------------------------------- under SpecOversell
AllReturned == \A c \in DOMAIN calls : calls[c].pc = "done"
Succeeded == {c \in DOMAIN calls : calls[c].pc = "done" /\ calls[c].res = Nil}
Failed == {c \in DOMAIN calls : calls[c].pc = "done" /\ calls[c].res # Nil}

\* The store's and the service's "no seats available" errors.
IsNoSeats(err) ==
    \/ ErrorsIs(err, RepoErrNoSeatsAvailable)
    \/ ErrorsIs(err, ErrNoSeatsAvailable)

\* C2: no overselling.  Of n+k concurrent reservations (k > 0) on an event with
\* n available seats exactly n succeed and k fail, each failure with a "no seats
\* available" error, and available_seats ends at 0; at no point are there more
\* bookings than n or a negative seat count.
NoOverselling ==
    /\ Len(bookings) <= events[1].total_seats
    /\ events[1].available_seats >= 0
    /\ \A c \in Failed : IsNoSeats(calls[c].res)
    /\ AllReturned =>
          /\ Cardinality(Succeeded) = events[1].total_seats
          /\ Len(bookings) = events[1].total_seats
          /\ Cardinality(Failed) = Cardinality(DOMAIN calls) - events[1].total_seats
          /\ events[1].available_seats = 0

\* All n+k calls have returned, and one lost at the conditional decrement.
OversellRaceResolved ==
    /\ AllReturned
    /\ \E c \in Failed : ErrorsIs(calls[c].res, RepoErrNoSeatsAvailable)

\* C10: last-seat race error kind.  A reservation that loses the race for the
\* last seat returns the NoSeatsAvailable kind of the Booking Service, the one
\* its own availability check returns and the handler answers with 409.
LastSeatRaceKind ==
    \A c \in Failed :
        /\ ErrorsIs(calls[c].res, ErrNoSeatsAvailable)
        /\ BookEventStatus(calls[c].res) = BookEventStatus(<<ErrNoSeatsAvailable>>)

\* ---------------------------------------------------------------- reconciliation
\* C11: idempotent reconciliation.  A reconciliation pass leaves no booking
\* pending and past its deadline, and a pass that starts when no booking is
\* pending and past its deadline (none became so since the pass before)
\* returns 0, changes no booking and no available_seats; a run of the job that
\* lists at such a moment processes nothing.
IdempotentReconcile ==
    [][/\ last'.op = "reconcile" => GetExpiredBookings' = {}
       /\ (GetExpiredBookings = {} /\ last'.op = "reconcile") =>
              /\ last'.res = 0
              /\ bookings' = bookings
              /\ events' = events
       /\ (GetExpiredBookings = {} /\ last'.op = "job.list") =>
              /\ job' = job
              /\ bookings' = bookings
              /\ events' = events]_vars

\* The second of two passes in a row, the first of which transitioned a booking.
ReconciledTwice ==
    /\ last.op = "reconcile"
    /\ last.prev.op = "reconcile"
    /\ last.prev.n > 0
    /\ last.res = 0
    /\ last.trans = {}

\* C12: automatic release.  With the clock advancing and the job firing again
\* and again, every pending booking whose deadline the clock can pass is
\* eventually either confirmed or, after its expires_at, taken out of pending by
\* a step that adds its seat back to its event's available_seats.
Released(b) ==
    /\ b \in last.trans
    /\ bookings[b].status # "pending"
    /\ bookings[b].expires_at < now
    /\ last.inc[bookings[b].event_id] = Cardinality(TransitionedOf(bookings[b].event_id))
Unpaid(b) ==
    /\ b \in BookingIds
    /\ bookings[b].status = "pending"
    /\ bookings[b].expires_at < MaxTime
Paid(b) ==
    /\ b \in BookingIds
    /\ bookings[b].status = "confirmed"
AutomaticRelease ==
    \A b \in 1..MaxBookings : Unpaid(b) ~> (Paid(b) \/ Released(b))

\* The job has released an overdue booking and notified its user.
JobReleased ==
    /\ last.op = "job.cancel"
    /\ last.res = Nil
    /\ \E b \in last.trans : Released(b) /\ Len(sent[b]) = 1

\* ---------------------------------------------------------------- confirm, owner
\* C15: confirmBooking(userID, eventID, bookingID) sets a booking to confirmed
\* if and only if a booking with that id, that event and that user exists and is
\* pending; otherwise it fails with the not-confirmable error and changes no
\* booking; either way no event's available_seats changes.
ConfirmIffPendingMatch ==
    last.op = "confirm" =>
        /\ NoSeatChange
        /\ IF last.arg.match /\ last.arg.was = "pending"
             THEN /\ last.res = Nil
                  /\ last.trans = {last.arg.b}
                  /\ bookings[last.arg.b].status = "confirmed"
             ELSE /\ IsConfirmError(last.res)
                  /\ last.trans = {}

\* A confirm that succeeded.
ConfirmSucceeded ==
    /\ last.op = "confirm"
    /\ last.res = Nil
    /\ bookings[last.arg.b].status = "confirmed"

\* What a confirm and a cancel return for a booking id that names no row.
NoSuchBooking(op) ==
    IF op = "confirm"
      THEN Wrap("confirm booking payment", <<ErrBookingNotFoundOrAlreadyConfirmed>>)
      ELSE Wrap("cancel booking", <<ErrBookingNotFoundOrAlreadyCancelled>>)

\* C16: owner-only mutation.  A confirmBooking or cancelBooking whose userID is
\* not the booking's user, or whose eventID is not the booking's event, changes
\* no booking's status and no seat count and returns the very error a call on
\* a booking id that names no row returns.
OwnerOnly ==
    (last.op \in {"confirm", "cancel"} /\ ~last.arg.match) =>
        /\ last.trans = {}
        /\ NoSeatChange
        /\ last.res = NoSuchBooking(last.op)

\* A cancel of an overdue pending booking by another user (or under another
\* event) was refused.
StrangerRefused ==
    /\ last.op = "cancel"
    /\ last.arg.was = "pending"
    /\ ~last.arg.match
    /\ bookings[last.arg.b].expires_at < now
    /\ last.res = NoSuchBooking("cancel")

\* C18: reconciliation is one set-based atomic step.  Nothing comes between a
\* pass's scan for overdue bookings and its transition of any of them: while a
\* pass has listed bookings it has not yet processed, the step just taken is a
\* step of reconciliation, never a reserveSeat, confirmBooking or cancelBooking.
ReconcileAtomic ==
    (\E j \in 1..MaxRuns : job[j].pc = "run") =>
        last.op \in {"job.list", "job.cancel", "reconcile", "tick"}

\* C19: the count reconcileExpired returns is the number of bookings whose
\* status that call changed, however the overdue bookings are spread over events.
ReconcileCountsBookings ==
    last.op = "reconcile" => last.res = Cardinality(last.trans)

\* ---------------------------------------------------------------- under SpecOverlap
\* C17: reconciliation concurrently with itself.  Under every interleaving of
\* overlapping reconciliation runs each overdue pending booking is transitioned
\* at most once, and its event's available_seats is incremented exactly once
\* for it: the seats given back are as many as the bookings transitioned.
OnePerBookingUnderOverlap ==
    /\ last.from \subseteq {"pending"}
    /\ \A e \in EventIds :
          events[e].exists =>
              events[e].available_seats =
                  Cardinality({b \in BookingIds :
                      bookings[b].event_id = e /\ bookings[b].status # "pending"})

\* ---------------------------------------------------------------- under SpecFaults
\* C13: reserveSeat is all-or-nothing.  A CreateBooking either returns nil, having
\* taken one seat of the event and added one pending booking of that event, or
\* returns an error and leaves events and bookings as they were: also when the
\* INSERT or the commit fails after the decrement.
ReserveAllOrNothing ==
    [][last'.op = "book.create" =>
          \/ /\ last'.res = Nil
             /\ Len(bookings') = Len(bookings) + 1
             /\ bookings'[Len(bookings')].status = "pending"
             /\ SubSeq(bookings', 1, Len(bookings)) = bookings
             /\ last'.inc[bookings'[Len(bookings')].event_id] = -1
          \/ /\ last'.res # Nil
             /\ bookings' = bookings
             /\ events' = events]_vars

\* A CreateBooking failed at the INSERT, after its decrement had matched.
InsertFailed ==
    /\ last.op = "book.create"
    /\ ErrorsIs(last.res, SQLError)
    /\ \E e \in EventIds : events[e].exists /\ events[e].available_seats > 0

\* C14: cancelBooking is all-or-nothing.  A CancelBooking (the endpoint's or the
\* job's) either returns nil, having set its booking from pending to cancelled
\* and added one to that event's available_seats, or returns an error and
\* leaves events and bookings as they were: also when the update of the event
\* or the commit fails after the status update.
CancelAllOrNothing ==
    [][last'.op \in {"cancel", "job.cancel"} =>
          \/ /\ last'.res = Nil
             /\ last'.trans = {last'.arg.b}
             /\ bookings[last'.arg.b].status = "pending"
             /\ bookings'[last'.arg.b].status = "cancelled"
             /\ \A e \in EventIds :
                   last'.inc[e] = IF e = bookings[last'.arg.b].event_id THEN 1 ELSE 0
          \/ /\ last'.res # Nil
             /\ bookings' = bookings
             /\ events' = events]_vars

\* A CancelBooking failed at the update of the event: the booking is still pending.
SeatIncrementFailed ==
    /\ last.op = "cancel"
    /\ ErrorsIs(last.res, SQLError)
    /\ last.arg.was = "pending"
    /\ bookings[last.arg.b].status = "pending"

\* C20: per-item degradation.  When, in an iteration of the job, the user
\* lookup, the event lookup or the Send fails, the booking's transition and the
\* release of its seat stand, and the run goes on with the rest of its list:
\* every other listed booking is still to be processed by that run.
DegradesPerItem ==
    [][last'.op = "job.degraded" =>
          /\ bookings[last'.arg.b].status = "pending"
          /\ bookings'[last'.arg.b].status = "cancelled"
          /\ last'.inc[bookings[last'.arg.b].event_id] = 1
          /\ \E j \in 1..MaxRuns :
                /\ job[j].pc = "run"
                /\ last'.arg.b \in job[j].todo
                /\ job'[j].todo = job[j].todo \ {last'.arg.b}
                /\ job'[j].todo # {} => job'[j].pc = "run"
                /\ \A i \in 1..MaxRuns \ {j} : job'[i] = job[i]]_vars

\* A lookup failed for a booking the job had just cancelled, and a run still
\* has another overdue pending booking on its list.
DegradedWithItemsLeft ==
    /\ last.op = "job.degraded"
    /\ last.res = Nil
    /\ bookings[last.arg.b].status = "cancelled"
    /\ sent[last.arg.b] = <<>>
    /\ \E j \in 1..MaxRuns :
          /\ job[j].pc = "run"
          /\ \E b \in job[j].todo : b # last.arg.b /\ IsExpiredPending(b)

\* ---------------------------------------------------------------- notification
\* The text msg names the title.
Contains(msg, title) == title # "" /\ \E i \in DOMAIN msg : msg[i] = title

NoSeatsChangesNothing ==
    [][(last'.op \in {"book.read", "book.create"} /\ IsNoSeats(last'.res)) =>
          /\ bookings' = bookings
          /\ events' = events
          /\ events[1].available_seats = 0
          /\ events'[1].available_seats = 0]_vars

\* A reservation passed the availability check and then found no seat at the
\* conditional decrement.
NoSeatAtDecrement ==
    /\ last.op = "book.create"
    /\ ErrorsIs(last.res, RepoErrNoSeatsAvailable)
    /\ events[1].available_seats = 0
    /\ Len(bookings) = events[1].total_seats

\* C23: every booking a reservation creates starts pending, and its expires_at
\* is the time at which the reservation read the clock (time.Now() in
\* Service.BookEvent) plus the booking_ttl stored in its event's row.
ExpiresAtReservationPlusTTL ==
    [][/\ (last'.op = "book.read" /\ last'.res = Nil) =>
             \E c \in DOMAIN calls : calls'[c].pc = "read" /\ calls'[c].at = now
       /\ (last'.op = "book.create" /\ last'.res = Nil) =>
             \E c \in DOMAIN calls :
                /\ calls[c].pc = "read"
                /\ calls'[c].pc = "done"
                /\ Len(bookings') = Len(bookings) + 1
                /\ bookings'[Len(bookings')].status = "pending"
                /\ bookings'[Len(bookings')].event_id = calls[c].event
                /\ bookings'[Len(bookings')].user_id = calls[c].user
                /\ bookings'[Len(bookings')].expires_at =
                      calls[c].at + events[calls[c].event].booking_ttl]_vars

\* A reservation made at time 1 of an event whose stored booking_ttl is 1 second
\* has created a pending booking that expires at 2.
ReservedWithDeadline ==
    /\ last.op = "book.create"
    /\ last.res = Nil
    /\ now = 1
    /\ events[1].booking_ttl = 1
    /\ bookings[Len(bookings)].status = "pending"
    /\ bookings[Len(bookings)].expires_at = 2

\* ---------------------------------------------------------------- deadline
ReconcilerOps == {"reconcile", "job.list", "job.cancel", "job.degraded"}

\* C24: the reconciler never transitions a booking before its deadline.  A
\* pending booking whose expires_at is not strictly earlier than now is left
\* pending by every step of reconciliation (the set-based statement, the job's
\* listing and each of its iterations), and no such step adds a seat to an event
\* on its account; whatever takes such a booking out of pending is a
\* confirmBooking or cancelBooking call.
NeverBeforeDeadline ==
    [][\A b \in BookingIds :
          (bookings[b].status = "pending" /\ ~(bookings[b].expires_at < now)) =>
              /\ last'.op \in ReconcilerOps =>
                    /\ bookings'[b].status = "pending"
                    /\ b \notin last'.trans
                    /\ last'.trans = {} => events' = events
              /\ bookings'[b].status # "pending" => last'.op \in {"confirm", "cancel"}]_vars

\* A reconciliation pass transitioned an overdue booking and left pending a
\* booking whose deadline is now.
LeftPendingAtDeadline ==
    /\ last.op = "reconcile"
    /\ last.trans # {}
    /\ \E b \in BookingIds :
          /\ bookings[b].status = "pending"
          /\ bookings[b].expires_at = now

\* C25: a reservation for an event id that names no event fails with the
\* service's EventNotFound (which the handler answers with 404), adds no booking,
\* changes no seat count and leaves no call on its way to CreateBooking.
UnknownEventNotFound ==
    [][(last'.op = "book.read" /\ ~last'.arg.match) =>
          /\ last'.res = <<ErrEventNotFound>>
          /\ BookEventStatus(last'.res) = "404 Not Found"
          /\ bookings' = bookings
          /\ events' = events
          /\ \A c \in DOMAIN calls : calls'[c].pc = "read" => calls'[c] = calls[c]]_vars

\* A reservation for an id that names no event has been refused.
UnknownEventRefused ==
    /\ last.op = "book.read"
    /\ ~last.arg.match
    /\ ErrorsIs(last.res, ErrEventNotFound)
    /\ \E c \in DOMAIN calls : calls[c] = Done(<<ErrEventNotFound>>)
    /\ bookings = <<>>

\* ---------------------------------------------------------------- under SpecRegister
\* C26: a Register for an email under which a user exists is answered 409 (user
\* already exists) and adds no user, at whichever step of the call the user is
\* found to exist, so that of two concurrent Registers for one email one creates
\* the user and the other gets 409; and no two users share an email.
RegisterConflictIs409 ==
    /\ \A u \in Users, v \in Users :
          (users[u].exists /\ users[v].exists /\ users[u].email = users[v].email) => u = v
    /\ (last.op \in {"register.check", "register.create"} /\ last.arg.match) =>
          /\ ErrorsIs(last.res, ErrUserAlreadyExists)
          /\ RegisterStatus(last.res) = "409 Conflict"

\* C27: a login with a wrong password for a registered email is answered 401,
\* and a login for an email under which no user is registered is answered 404.
LoginStatusAsDocumented ==
    last.op = "login" =>
        /\ last.arg.was = "mismatch" => LoginStatus(last.res) = "401 Unauthorized"
        /\ last.arg.was = "none" => LoginStatus(last.res) = "404 Not Found"

\* ---------------------------------------------------------------- error kinds
\* Handler.ConfirmBooking and Handler.CancelBooking: the status the handler
\* answers for the service's error.
ConfirmBookingStatus(err) ==
    IF err = Nil THEN "200 OK"
    ELSE IF ErrorsIs(err, ErrBookingNotFoundOrAlreadyConfirmed) THEN "404 Not Found"
    ELSE "500 Internal Server Error"
CancelBookingStatus(err) ==
    IF err = Nil THEN "200 OK"
    ELSE IF ErrorsIs(err, ErrBookingNotFoundOrAlreadyCancelled) THEN "404 Not Found"
    ELSE "500 Internal Server Error"

ErrorKinds ==
    {ErrBookingNotFoundOrAlreadyConfirmed, ErrBookingNotFoundOrAlreadyCancelled, SQLError}

\* C28: for confirm and cancel the service returns an error of the very kind
\* the store returned: not-confirmable for not-confirmable, not-cancellable for
\* not-cancellable, and for a persistence error a persistence error that is
\* neither of the two (the handler answers the first two 404, the last 500);
\* the service fails exactly when the store does.
ErrorKindsPassThrough ==
    last.op \in {"confirm", "cancel"} =>
        /\ last.res = Nil <=> last.arg.store = Nil
        /\ \A k \in ErrorKinds : ErrorsIs(last.res, k) <=> ErrorsIs(last.arg.store, k)
        /\ last.arg.store # Nil => \E k \in ErrorKinds : ErrorsIs(last.arg.store, k)
        /\ ErrorsIs(last.arg.store, SQLError) =>
              /\ ~IsConfirmError(last.res)
              /\ ~IsCancelError(last.res)
        /\ last.op = "confirm" => ConfirmBookingStatus(last.res) = ConfirmBookingStatus(last.arg.store)
        /\ last.op = "cancel" => CancelBookingStatus(last.res) = CancelBookingStatus(last.arg.store)

\* The store's confirmBooking failed with a persistence error on a pending
\* booking of the caller, and the service returned a persistence error.
ConfirmPersistenceError ==
    /\ last.op = "confirm"
    /\ last.arg.match
    /\ last.arg.was = "pending"
    /\ ErrorsIs(last.arg.store, SQLError)
    /\ ErrorsIs(last.res, SQLError)
    /\ ConfirmBookingStatus(last.res) = "500 Internal Server Error"
    /\ bookings[last.arg.b].status = "pending"

\* ---------------------------------------------------------------- listing
\* C29: the listing of the expired bookings returns exactly the bookings whose
\* status is pending and whose expires_at is strictly earlier than now (none
\* that is confirmed, cancelled or not yet due), and it changes no booking, no
\* event and sends nothing: the run that listed goes through exactly that list.
ListsExactlyOverduePending ==
    [][last'.op = "job.list" =>
          LET overdue == {b \in BookingIds : /\ bookings[b].status = "pending"
                                             /\ bookings[b].expires_at < now}
          IN
          /\ bookings' = bookings
          /\ events' = events
          /\ sent' = sent
          /\ last'.trans = {}
          /\ IF overdue = {}
               THEN job' = job
               ELSE \E j \in 1..MaxRuns :
                      /\ job[j].pc = "idle"
                      /\ job'[j] = [pc |-> "run", todo |-> overdue, ret |-> Nil]
                      /\ \A i \in 1..MaxRuns : i # j => job'[i] = job[i]]_vars

\* A run has just listed an overdue booking and not a pending booking whose
\* deadline has not passed.
ListedOnlyOverdue ==
    /\ last.op = "job.list"
    /\ \E j \in 1..MaxRuns :
          /\ job[j].pc = "run"
          /\ job[j].todo # {}
          /\ \E b \in BookingIds :
                /\ b \notin job[j].todo
                /\ bookings[b].status = "pending"
                /\ bookings[b].expires_at >= now

\* ---------------------------------------------------------------- events
\* C30: an event, once created, is never removed, and no step (reserve,
\* confirm, cancel, reconciliation, a read of the event, nor any of them
\* failing) changes its total_seats, title, date or booking_ttl.
EventsImmutable ==
    [][\A e \in EventIds :
          events[e].exists =>
              /\ events'[e].exists
              /\ events'[e].total_seats = events[e].total_seats
              /\ events'[e].title = events[e].title
              /\ events'[e].date = events[e].date
              /\ events'[e].booking_ttl = events[e].booking_ttl]_vars

\* A reservation has taken a seat of an event and a reconciliation gave it
\* back: the event has all its seats again, under the title it was created with.
SeatTakenAndGivenBack ==
    /\ last.op \in {"reconcile", "job.cancel"}
    /\ last.trans # {}
    /\ events[1].exists
    /\ events[1].title \in Titles
    /\ events[1].date \in Dates
    /\ events[1].total_seats = MaxSeats
    /\ events[1].available_seats = MaxSeats

\* ---------------------------------------------------------------- paid seats
\* C31: a paid seat is never taken back.  A confirmed booking is confirmed
\* after every step; no step of reconciliation transitions it, also when its
\* expires_at has passed, and a reconciliation step that transitions no booking
\* of its event adds nothing to that event's available_seats.
PaidSeatKept ==
    [][\A b \in BookingIds :
          bookings[b].status = "confirmed" =>
              /\ bookings'[b].status = "confirmed"
              /\ b \notin last'.trans
              /\ (/\ last'.op \in ReconcilerOps
                  /\ TransitionedOf(bookings[b].event_id)' = {})
                 => last'.inc[bookings[b].event_id] = 0]_vars

\* A reconciliation pass transitioned an overdue pending booking and left alone
\* a confirmed booking whose expires_at has passed as well.
PaidSeatSurvivedPass ==
    /\ last.op = "reconcile"
    /\ last.trans # {}
    /\ \E b \in BookingIds :
          /\ bookings[b].status = "confirmed"
          /\ bookings[b].expires_at < now

\* ---------------------------------------------------------------- confirm races
\* C32: confirm vs. reconcile race.  Of a confirmBooking and a reconciliation
\* (the set-based statement, or an iteration of a job run that listed the
\* booking while it was pending) on the same overdue pending booking, only the
\* first transitions it.  If the confirm came first, the reconciler's step
\* transitions nothing of it, the booking stays confirmed and no seat is
\* released for it; if the reconciler came first, it released the seat (one
\* seat for the booking it transitioned alone of its event) and the confirm
\* fails with the not-confirmable error and changes nothing.
ConfirmReconcileRace ==
    /\ last.from \subseteq {"pending"}
    /\ last.op \in {"job.cancel", "reconcile"} =>
          /\ \A b \in BookingIds :
                bookings[b].status = "confirmed" => b \notin last.trans
          /\ \A e \in EventIds :
                /\ TransitionedOf(e) = {} => last.inc[e] = 0
                /\ Cardinality(TransitionedOf(e)) = 1 => last.inc[e] = 1
    /\ (last.op = "job.cancel" /\ last.arg.was = "confirmed") =>
          /\ IsCancelError(last.res)
          /\ last.trans = {}
          /\ NoSeatChange
          /\ bookings[last.arg.b].status = "confirmed"
    /\ (last.op = "confirm" /\ last.arg.was = "cancelled") =>
          /\ IsConfirmError(last.res)
          /\ last.trans = {}
          /\ NoSeatChange
          /\ bookings[last.arg.b].status = "cancelled"

\* The confirm won: a run of the job had listed the booking as expired, the
\* owner confirmed it, and the run's CancelBooking then found no row.
ConfirmWonAgainstJob ==
    /\ last.op = "job.cancel"
    /\ last.arg.match
    /\ last.arg.was = "confirmed"
    /\ IsCancelError(last.res)
    /\ bookings[last.arg.b].status = "confirmed"
    /\ bookings[last.arg.b].expires_at < now
    /\ sent[last.arg.b] = <<>>

\* C33: confirm vs. cancel race.  Of the owner's confirmBooking and
\* cancelBooking on the same booking only a call that finds it pending succeeds,
\* so at most one of the two does: the one that succeeds leaves the booking
\* confirmed (confirm) or cancelled (cancel), the other finds it in that status,
\* fails and changes nothing; available_seats of the booking's event goes up by
\* one exactly when a cancel succeeded, and no other seat count changes.
ConfirmCancelRace ==
    (last.op \in {"confirm", "cancel"} /\ last.arg.match) =>
        /\ last.res = Nil =>
              /\ last.arg.was = "pending"
              /\ last.trans = {last.arg.b}
              /\ bookings[last.arg.b].status =
                    (IF last.op = "confirm" THEN "confirmed" ELSE "cancelled")
        /\ last.res # Nil =>
              /\ last.trans = {}
              /\ bookings[last.arg.b].status = last.arg.was
        /\ last.arg.was # "pending" => last.res # Nil
        /\ \A e \in EventIds :
              last.inc[e] = IF /\ last.op = "cancel"
                               /\ last.res = Nil
                               /\ e = bookings[last.arg.b].event_id
                            THEN 1 ELSE 0

\* The owner's cancel of an overdue booking came after the owner's confirm of
\* it: the cancel failed and no seat was released.
CancelLostToConfirm ==
    /\ last.op = "cancel"
    /\ last.arg.match
    /\ last.arg.was = "confirmed"
    /\ bookings[last.arg.b].expires_at < now
    /\ IsCancelError(last.res)
    /\ NoSeatChange
    /\ bookings[last.arg.b].status = "confirmed"

\* C34: confirmBooking has no deadline guard.  The owner's confirm of a booking
\* that is still pending succeeds and sets it to confirmed also when now is past
\* the booking's expires_at.
ConfirmableAfterDeadline ==
    (/\ last.op = "confirm"
     /\ last.arg.match
     /\ last.arg.was = "pending"
     /\ bookings[last.arg.b].expires_at < now)
    => /\ last.res = Nil
       /\ last.trans = {last.arg.b}
       /\ bookings[last.arg.b].status = "confirmed"
       /\ NoSeatChange

\* A booking was confirmed after its expires_at had passed.
ConfirmedAfterDeadline ==
    /\ last.op = "confirm"
    /\ last.res = Nil
    /\ last.arg.was = "pending"
    /\ bookings[last.arg.b].status = "confirmed"
    /\ bookings[last.arg.b].expires_at < now

\* ---------------------------------------------------------------- at most once
\* C35: at-most-once expiry notification.  However many runs of the job list a
\* booking, one after another or overlapping, the notifier gets at most one
\* message for it, and it gets it in the iteration whose CancelBooking took the
\* booking from pending to cancelled; an iteration whose CancelBooking fails
\* sends nothing.
AtMostOnceNotification ==
    [][\A b \in 1..MaxBookings :
          /\ Len(sent'[b]) <= 1
          /\ sent'[b] # sent[b] =>
                /\ last'.op \in {"job.cancel", "job.degraded"}
                /\ last'.arg.b = b
                /\ last'.res = Nil
                /\ last'.trans = {b}
                /\ bookings[b].status = "pending"
                /\ bookings'[b].status = "cancelled"
          /\ (last'.op = "job.cancel" /\ last'.arg.b = b /\ last'.res # Nil) =>
                sent'[b] = sent[b]]_vars

\* Two runs had listed the same booking; one cancelled it and notified, and the
\* other's CancelBooking has now failed without a second message.
SecondRunSentNothing ==
    /\ last.op = "job.cancel"
    /\ last.arg.was = "cancelled"
    /\ IsCancelError(last.res)
    /\ Len(sent[last.arg.b]) = 1
    /\ \A j \in 1..MaxRuns : last.arg.b \notin job[j].todo

\* ---------------------------------------------------------------- under SpecJob
\* C36: a run of the job returns an error only when its listing of the expired
\* bookings fails, and that run changes no booking, no seat count and sends
\* nothing; a run whose listing succeeded goes through every booking it listed,
\* one per iteration whatever fails in the iteration, and returns nil after the
\* last one.
RunFailsOnlyAtListing ==
    [][/\ \A j \in 1..MaxRuns :
             (job'[j].ret # Nil /\ job'[j] # job[j]) =>
                 /\ last'.op = "job.list"
                 /\ last'.res = job'[j].ret
                 /\ ErrorsIs(last'.res, SQLError)
                 /\ job[j].pc = "idle"
                 /\ job'[j].pc = "idle"
       /\ (last'.op = "job.list" /\ last'.res # Nil) =>
             /\ bookings' = bookings
             /\ events' = events
             /\ sent' = sent
             /\ \A j \in 1..MaxRuns : job'[j].todo = job[j].todo
       /\ last'.op \in {"job.cancel", "job.degraded"} =>
             \E j \in 1..MaxRuns :
                /\ job[j].pc = "run"
                /\ last'.arg.b \in job[j].todo
                /\ job'[j] = IF job[j].todo = {last'.arg.b} THEN NotRunning
                             ELSE [pc |-> "run", todo |-> job[j].todo \ {last'.arg.b},
                                   ret |-> Nil]
                /\ \A i \in 1..MaxRuns : i # j => job'[i] = job[i]]_vars

\* The CancelBooking of the last booking on a run's list failed and the run has
\* returned nil; no iteration of any run has succeeded: every booking is still
\* pending and overdue, and nothing was sent.
RunSucceededThoughAllFailed ==
    /\ last.op = "job.cancel"
    /\ ErrorsIs(last.res, SQLError)
    /\ Len(bookings) = MaxBookings
    /\ \A b \in BookingIds : IsExpiredPending(b) /\ sent[b] = <<>>
    /\ \A j \in 1..MaxRuns : job[j] = NotRunning

====
